---- MODULE Spec2Model ----
(***************************************************************************)
(* State-machine model of the G-Shock price tracker (src/main.py,          *)
(* src/config.py): sessions of main() that collect prices from the         *)
(* configured sites, append them to the CSV ledger HISTORY_FILE, evaluate  *)
(* the alert rules and clean up.                                           *)
(*                                                                         *)
(* Prices are Python floats in the source.  The model keeps them as        *)
(* integers counted in 1/Scale of a rupee, so that every comparison of the *)
(* source (<=, <, < 0.9 * lowest) is computed exactly.                     *)
(***************************************************************************)
EXTENDS Integers, Sequences, FiniteSets, TLC

\* ------------------------------------------------------------------ bounds

\* Number of sessions of main() a behaviour runs.
MaxSessions == 2

\* Number of entries of WATCH_SITES (taken in configuration order) that a
\* session checks.
NumSites == 2

\* ----------------------------------------------------------- configuration

\* Fixed-point unit standing for float(): a price p is kept as p * Scale.
Scale == 100

\* float('inf'), the "no data" value of lowest_ever: above every price.
Inf == 999999999

\* config.py: PRICE_THRESHOLD (rupees).
PRICE_THRESHOLD == 7500

\* config.py: TEST_MODE.
TEST_MODE == FALSE

\* config.py: WATCH_SITES, in insertion order (the order dict iteration uses).
WATCH_SITES ==
  << [name |-> "Amazon India", method |-> "static",
      price_selector |-> ".a-price-whole",
      backup_selector |-> "#corePriceDisplay_desktop_feature_div .a-price-whole"],
     [name |-> "Flipkart", method |-> "dynamic",
      price_selector |-> "._30jeq3", backup_selector |-> ".UOCQB1 div"],
     [name |-> "Myntra", method |-> "dynamic",
      price_selector |-> ".pdp-price strong",
      backup_selector |-> ".pdp-discount-container strong"],
     [name |-> "Casio Official", method |-> "static",
      price_selector |-> ".p-product_detail-price", backup_selector |-> ".price"],
     [name |-> "Swiss Time House", method |-> "static",
      price_selector |-> ".ce-product-price span", backup_selector |-> ".price-item"],
     [name |-> "Just In Time", method |-> "static",
      price_selector |-> ".price-item--sale", backup_selector |-> ".price__sale span"],
     [name |-> "Tata Cliq", method |-> "dynamic",
      price_selector |-> ".pdp-module__flxRgtIconColLft div",
      backup_selector |-> "[data-testid=price]"],
     [name |-> "Ajio", method |-> "dynamic",
      price_selector |-> ".prod-price-section div", backup_selector |-> ".price"],
     [name |-> "Helios", method |-> "static",
      price_selector |-> ".product-info-price span", backup_selector |-> ".price"] >>

Sessions == 1..MaxSessions

SiteIndexes == 1..NumSites

\* ------------------------------------------------- extract_price_from_text

\* Python's None and a float value, as an option: <<>> or <<value>>.
None == <<>>

Some(v) == <<v>>

\* Python truthiness of an optional float: None and 0.0 are both falsy.
Truthy(opt) == opt # None /\ opt[1] # 0

Digits == {"0", "1", "2", "3", "4", "5", "6", "7", "8", "9"}

DigitVal(c) ==
  CASE c = "0" -> 0 [] c = "1" -> 1 [] c = "2" -> 2 [] c = "3" -> 3
    [] c = "4" -> 4 [] c = "5" -> 5 [] c = "6" -> 6 [] c = "7" -> 7
    [] c = "8" -> 8 [] c = "9" -> 9

\* str.replace(pat, ''): every non-overlapping occurrence, left to right.
RECURSIVE Replace(_, _)
Replace(s, pat) ==
  IF Len(s) < Len(pat) THEN s
  ELSE IF SubSeq(s, 1, Len(pat)) = pat
       THEN Replace(SubSeq(s, Len(pat) + 1, Len(s)), pat)
       ELSE <<Head(s)>> \o Replace(Tail(s), pat)

\* The length of the longest run of digits at the start of s.
RECURSIVE DigitRun(_)
DigitRun(s) ==
  IF s # <<>> /\ Head(s) \in Digits THEN 1 + DigitRun(Tail(s)) ELSE 0

\* The value of a digit string (base 10).
RECURSIVE IntValue(_)
IntValue(ds) ==
  IF ds = <<>> THEN 0
  ELSE IntValue(SubSeq(ds, 1, Len(ds) - 1)) * 10 + DigitVal(ds[Len(ds)])

\* re.findall(r'\d+\.?\d*', s)[0]: the leftmost match, as the pair of its
\* integer digits and its fraction digits; <<>> when nothing matches.
RECURSIVE FirstNumber(_)
FirstNumber(s) ==
  IF s = <<>> THEN <<>>
  ELSE IF Head(s) \notin Digits THEN FirstNumber(Tail(s))
  ELSE LET n == DigitRun(s)
           rest == SubSeq(s, n + 1, Len(s))
           frac == IF rest # <<>> /\ Head(rest) = "."
                   THEN SubSeq(rest, 2, 1 + DigitRun(Tail(rest)))
                   ELSE <<>>
       IN  << SubSeq(s, 1, n), frac >>

\* float(token) in units of 1/Scale: two fraction digits are kept.
Float(token) ==
  LET f == token[2]
      d1 == IF Len(f) >= 1 THEN DigitVal(f[1]) ELSE 0
      d2 == IF Len(f) >= 2 THEN DigitVal(f[2]) ELSE 0
  IN  IntValue(token[1]) * Scale + d1 * (Scale \div 10) + d2 * (Scale \div 100)

extract_price_from_text(price_text) ==
  IF price_text = <<>> THEN None
  ELSE LET cleaned_text ==
             Replace(Replace(Replace(Replace(price_text, <<"₹">>), <<",">>),
                             <<"R", "s">>), <<"I", "N", "R">>)
           number_patterns == FirstNumber(cleaned_text)
       IN  IF number_patterns # <<>>
           THEN Some(Float(number_patterns))   \* in or out of the sanity range
           ELSE None

\* --------------------------------------------------------- page fetches

\* What a selector finds on a fetched page: no element, or an element with
\* its text.
NoElement == <<>>

Element(text) == <<text>>

\* Texts a price element may carry.
PriceTexts ==
  { <<>>,
    <<"F", "r", "e", "e">>,
    <<"0", "%", " ", "o", "f", "f">>,
    <<"₹", "7", ",", "5", "0", "0">>,
    <<"8", "0", "0", "0", ".", "0", "0">>,
    <<"R", "s", "8", "5", "0", "0">>,
    <<"I", "N", "R", " ", "9", ",", "0", "0", "0", ".", "0">> }

Elements == {NoElement} \cup {Element(t) : t \in PriceTexts}

\* One fetch of a site: the step that raised (if any) and what each locator
\* finds on the page.
Fetches ==
  [fault : {"none"}, primary : Elements, backup : Elements]
    \cup [fault : {"setup_browser", "get"}, primary : {NoElement}, backup : {NoElement}]

\* -------------------------------------------------------------- scraping

\* A scraper that also falls back to the backup selector when the element
\* the primary selector found carries a text no price can be read from.
LocatorsTriedOnAnyFailure(site_config, fetch) ==
  IF (fetch.primary = NoElement
        \/ ~Truthy(extract_price_from_text(fetch.primary[1])))
       /\ site_config.backup_selector # site_config.price_selector
  THEN << site_config.price_selector, site_config.backup_selector >>
  ELSE << site_config.price_selector >>

\* The selectors a scrape looks up on the fetched page, in order: the primary
\* one, then the backup one only when the primary finds nothing (select_one
\* returned None, the wait timed out) and the two selectors differ.
LocatorsTried(site_config, fetch) ==
  IF fetch.primary = NoElement
       /\ site_config.backup_selector # site_config.price_selector
  THEN << site_config.price_selector, site_config.backup_selector >>
  ELSE << site_config.price_selector >>

\* The element the locators yield: what the last selector tried finds.
LocateElement(site_config, fetch) ==
  IF Len(LocatorsTried(site_config, fetch)) = 2
  THEN fetch.backup
  ELSE fetch.primary

\* The tail shared by both scrape methods: text of the element, normalized;
\* a falsy price (None or 0.0) is "could not extract".
PriceOfElement(price_element) ==
  IF price_element # NoElement
  THEN LET price == extract_price_from_text(price_element[1])
       IN  IF Truthy(price) THEN price ELSE None
  ELSE None

scrape_price_static(site_config, fetch) ==
  IF fetch.fault # "none" THEN None      \* except RequestException / Exception
  ELSE PriceOfElement(LocateElement(site_config, fetch))

scrape_price_dynamic(site_config, fetch) ==
  IF fetch.fault # "none" THEN None      \* except Exception
  ELSE PriceOfElement(LocateElement(site_config, fetch))

\* What extract_price_from_text returned for the site's located element
\* (None when the fetch raised or no element was found).
NormalizedText(site_config, fetch) ==
  IF fetch.fault # "none" \/ LocateElement(site_config, fetch) = NoElement
  THEN None
  ELSE extract_price_from_text(LocateElement(site_config, fetch)[1])

\* setup_browser: the driver after a dynamic fetch. It is created on first
\* use unless webdriver.Chrome raises, and then kept.
setup_browser(drv, fetch) ==
  IF drv = "none" /\ fetch.fault = "setup_browser" THEN "none" ELSE "open"

\* The fetches a site's method can produce.
FetchesOf(site_config, drv) ==
  { f \in Fetches :
      f.fault = "setup_browser" => (site_config.method = "dynamic" /\ drv = "none") }

\* ---------------------------------------------------------- the CSV ledger

\* A cell of a CSV line: text, or the text of a number (which float() reads
\* back as that number), or a timestamp.
Txt(s) == [isnum |-> FALSE, n |-> 0, s |-> s]

Num(n) == [isnum |-> TRUE, n |-> n, s |-> ""]

Stamp(t) == [isnum |-> FALSE, n |-> t, s |-> "datetime"]

Bool(b) == Txt(IF b THEN "True" ELSE "False")

fieldnames == <<"timestamp", "site", "price", "is_new_low", "below_threshold">>

required_columns == {"timestamp", "site", "price"}

\* csv.DictWriter.writeheader: the line naming the given columns.
HeaderLine(cols) == [i \in 1..Len(cols) |-> Txt(cols[i])]

\* csv.DictWriter.writerow of one record.
RowLine(timestamp, site, price, is_new_low, below_threshold) ==
  << Stamp(timestamp), Txt(site), Num(price), Bool(is_new_low), Bool(below_threshold) >>

\* HISTORY_FILE on disk: absent, or its lines.
AbsentFile == [exists |-> FALSE, lines |-> <<>>]

FileOf(lines) == [exists |-> TRUE, lines |-> lines]

\* The dict returned when there is nothing to report (the code's dict has no
\* 'total_checks' key there; the model writes len(records) = 0).
NoData == [lowest_ever |-> Inf, records |-> <<>>, total_checks |-> 0]

\* record.get('price') of a DictReader row, then float(): the cell under the
\* 'price' column when it is there and reads as a number.
PriceCell(names, record) ==
  IF \E i \in 1..Len(names) : names[i] = "price"
  THEN LET idx == CHOOSE i \in 1..Len(names) : names[i] = "price"
       IN  IF idx <= Len(record) /\ record[idx].isnum
           THEN Some(record[idx].n) ELSE None
  ELSE None

RECURSIVE MinOf(_)
MinOf(S) ==
  LET x == CHOOSE v \in S : TRUE
  IN  IF S = {x} THEN x
      ELSE LET m == MinOf(S \ {x}) IN IF x < m THEN x ELSE m

\* A get_historical_data without its required-columns check.
get_historical_data_unchecked(file) ==
  IF ~file.exists \/ file.lines = <<>> THEN NoData
  ELSE LET names == [i \in 1..Len(file.lines[1]) |-> file.lines[1][i].s]
           records == Tail(file.lines)
           prices == { PriceCell(names, records[k])[1] :
                         k \in {j \in 1..Len(records) :
                                  PriceCell(names, records[j]) # None} }
       IN  IF records = <<>> THEN NoData
           ELSE [lowest_ever |-> IF prices # {} THEN MinOf(prices) ELSE Inf,
                 records |-> records,
                 total_checks |-> Len(records)]

get_historical_data(file) ==
  IF ~file.exists \/ file.lines = <<>> THEN NoData
  ELSE LET names == [i \in 1..Len(file.lines[1]) |-> file.lines[1][i].s]
           missing_columns ==
             {col \in required_columns : \A i \in 1..Len(names) : names[i] # col}
           records == Tail(file.lines)
           prices == { PriceCell(names, records[k])[1] :
                         k \in {j \in 1..Len(records) :
                                  PriceCell(names, records[j]) # None} }
       IN  IF missing_columns # {} THEN NoData
           ELSE IF records = <<>> THEN NoData
           ELSE [lowest_ever |-> IF prices # {} THEN MinOf(prices) ELSE Inf,
                 records |-> records,
                 total_checks |-> Len(records)]

\* os.path.exists(HISTORY_FILE) and os.path.getsize(HISTORY_FILE) > 0
FileHasContent(file) == file.exists /\ file.lines # <<>>

\* The header-repair test: the file's first line is empty or does not contain
\* the text 'timestamp'.
NeedsHeader(file) ==
  \/ file.lines = <<>>
  \/ \A i \in 1..Len(file.lines[1]) : file.lines[1][i].s # "timestamp"

\* The header repair's write: open(HISTORY_FILE, 'w') and writeheader().
RecreateWithHeader(file) == FileOf(<<HeaderLine(fieldnames)>>)

\* ------------------------------------------------------------ deal rules

below_threshold(price) == price <= PRICE_THRESHOLD * Scale

is_new_low(price, lowest_ever) == price < lowest_ever

\* price < lowest_ever * 0.9, guarded by lowest_ever != float('inf').
SignificantDrop(price, lowest_ever) ==
  lowest_ever # Inf /\ 10 * price < 9 * lowest_ever

\* A check_for_deals whose rules are chained with elif: the first rule that
\* holds is the only reason.
alert_reasons_first_match(price, lowest_ever) ==
  IF below_threshold(price) THEN <<"At/below your target">>
  ELSE IF is_new_low(price, lowest_ever) THEN <<"New historical low!">>
  ELSE IF SignificantDrop(price, lowest_ever)
       THEN <<"Significant price drop detected">> ELSE <<>>

alert_reasons(price, lowest_ever) ==
  (IF below_threshold(price) THEN <<"At/below your target">> ELSE <<>>)
    \o (IF is_new_low(price, lowest_ever) THEN <<"New historical low!">> ELSE <<>>)
    \o (IF SignificantDrop(price, lowest_ever)
        THEN <<"Significant price drop detected">> ELSE <<>>)

\* What send_email_alert does with one alert.
SendOutcomes == IF TEST_MODE THEN {"test_mode"} ELSE {"sent", "failed"}

\* ------------------------------------------------------------------ state

VARIABLES
  history_file,     \* HISTORY_FILE on disk
  max_active,       \* how many sessions may run at once (1: one at a time)
  pc,               \* each session's position in main()
  trace,            \* each session's stages entered so far, in order
  driver,           \* each session's tracker.driver: "none", "open", "quit"
  cleaned,          \* whether the session's tracker.cleanup() has run
  site_i,           \* each session's loop index (sites, rows, deals)
  current_prices,   \* each session's current_prices: <<[site, price], ...>>
  historical_data,  \* each session's historical_data (last read)
  file_exists,      \* each session's file_exists (save_price_data)
  save_error,       \* whether save_price_data took its except branch
  alerts,           \* each session's alerts handed to send_email_alert
  alerts_sent,      \* each session's alerts_sent counter
  normalized,       \* history: what extract_price_from_text returned per site
  scraped,          \* the latest scrape_price_* call made on its own, and its result
  fresh,            \* history: the ledger was absent when the first session began
  appended          \* history: the observations written by writerow, in order

vars == << history_file, max_active, pc, trace, driver, cleaned, site_i,
           current_prices, historical_data, file_exists, save_error, alerts,
           alerts_sent, normalized, scraped, fresh, appended >>

\* A session's locals as they are when its tracker is constructed.
locals == << site_i, current_prices, historical_data, file_exists, save_error,
             alerts, alerts_sent, normalized >>

\* Ledgers a first session may find: no file, an empty file, a file whose
\* header line is gone (a data row comes first), and files whose header lacks
\* one of the required columns.
InitialLedgers ==
  { AbsentFile,
    FileOf(<<>>),
    FileOf(<< RowLine(0, "Amazon India", 9000 * Scale, TRUE, FALSE) >>),
    FileOf(<< HeaderLine(<<"timestamp", "site">>),
              << Stamp(0), Txt("Amazon India") >> >>),
    FileOf(<< HeaderLine(<<"timestamp", "price">>),
              << Stamp(0), Num(9000 * Scale) >> >>),
    FileOf(<< HeaderLine(<<"site", "price">>),
              << Txt("Amazon India"), Num(9000 * Scale) >> >>) }

\* No scrape_price_* call has been made on its own.
NoScrape == [site |-> 0, fetch |-> [fault |-> "none", primary |-> NoElement,
                                   backup |-> NoElement],
             locators |-> <<>>, price |-> None]

InitWith(n) ==
  /\ history_file \in InitialLedgers
  /\ max_active = n
  /\ pc = [s \in Sessions |-> "idle"]
  /\ trace = [s \in Sessions |-> <<>>]
  /\ driver = [s \in Sessions |-> "none"]
  /\ cleaned = [s \in Sessions |-> FALSE]
  /\ site_i = [s \in Sessions |-> 1]
  /\ current_prices = [s \in Sessions |-> <<>>]
  /\ historical_data = [s \in Sessions |-> NoData]
  /\ file_exists = [s \in Sessions |-> FALSE]
  /\ save_error = [s \in Sessions |-> FALSE]
  /\ alerts = [s \in Sessions |-> <<>>]
  /\ alerts_sent = [s \in Sessions |-> 0]
  /\ normalized = [s \in Sessions |-> <<>>]
  /\ scraped = NoScrape
  /\ fresh = (history_file = AbsentFile)
  /\ appended = <<>>

Init == InitWith(1)

Running == {s \in Sessions : pc[s] \notin {"idle", "done"}}

\* ------------------------------------------------------------------ main()

\* main() is invoked: tracker = PriceTracker(), then the try block begins.
Start(s) ==
  /\ pc[s] = "idle"
  /\ s > 1 => pc[s - 1] # "idle"
  /\ Cardinality(Running) < max_active
  /\ pc' = [pc EXCEPT ![s] = "collect"]
  /\ trace' = [trace EXCEPT ![s] = <<"collect">>]
  /\ UNCHANGED << history_file, max_active, driver, cleaned, locals, fresh, appended >>
  /\ UNCHANGED scraped

\* A main() whose early return leaves without running cleanup.
AfterCollectReturnsAtOnce(prices) == IF prices = <<>> THEN "exit" ELSE "save_read"

\* Where main() goes once get_all_current_prices has returned.
AfterCollect(prices) == IF prices = <<>> THEN "cleanup" ELSE "save_read"

\* One iteration of the for loop of get_all_current_prices, and, after the
\* last site, the return to main() with its `if not current_prices: return`.
CheckSite(s) ==
  /\ pc[s] = "collect"
  /\ LET site_config == WATCH_SITES[site_i[s]]
     IN  \E fetch \in FetchesOf(site_config, driver[s]) :
           LET price == IF site_config.method = "static"
                        THEN scrape_price_static(site_config, fetch)
                        ELSE scrape_price_dynamic(site_config, fetch)
               prices == IF Truthy(price)
                         THEN Append(current_prices[s],
                                     [site |-> site_config.name, price |-> price[1]])
                         ELSE current_prices[s]
               last == site_i[s] = NumSites
           IN  /\ current_prices' = [current_prices EXCEPT ![s] = prices]
               /\ normalized' = [normalized EXCEPT ![s] =
                                   Append(@, NormalizedText(site_config, fetch))]
               /\ driver' = [driver EXCEPT ![s] =
                               IF site_config.method = "dynamic"
                               THEN setup_browser(driver[s], fetch) ELSE @]
               /\ site_i' = [site_i EXCEPT ![s] = IF last THEN 1 ELSE @ + 1]
               /\ pc' = [pc EXCEPT ![s] = IF last THEN AfterCollect(prices) ELSE @]
               /\ trace' = [trace EXCEPT ![s] =
                              IF last /\ AfterCollect(prices) = "save_read"
                              THEN Append(@, "persist") ELSE @]
  /\ UNCHANGED << history_file, max_active, cleaned, historical_data, file_exists,
                  save_error, alerts, alerts_sent, scraped, fresh, appended >>

\* ------------------------------------------------------- save_price_data

\* historical_data = self.get_historical_data()
SaveRead(s) ==
  /\ pc[s] = "save_read"
  /\ historical_data' = [historical_data EXCEPT ![s] = get_historical_data(history_file)]
  /\ pc' = [pc EXCEPT ![s] = "save_stat"]
  /\ UNCHANGED << history_file, max_active, trace, driver, cleaned, site_i,
                  current_prices, file_exists, save_error, alerts, alerts_sent,
                  normalized, fresh, appended >>
  /\ UNCHANGED scraped

\* file_exists = os.path.exists(...) and os.path.getsize(...) > 0
SaveStat(s) ==
  /\ pc[s] = "save_stat"
  /\ file_exists' = [file_exists EXCEPT ![s] = FileHasContent(history_file)]
  /\ pc' = [pc EXCEPT ![s] = "save_open"]
  /\ UNCHANGED << history_file, max_active, trace, driver, cleaned, site_i,
                  current_prices, historical_data, save_error, alerts, alerts_sent,
                  normalized, fresh, appended >>
  /\ UNCHANGED scraped

\* A save_price_data that writes the header on every call.
WritesHeaderAlways(exists_flag) == TRUE

\* Whether save_price_data writes the header after opening the file.
WritesHeader(exists_flag) == ~exists_flag

\* open(HISTORY_FILE, 'a'): creates the file when it is absent.
SaveOpen(s) ==
  /\ pc[s] = "save_open"
  /\ history_file' = [history_file EXCEPT !.exists = TRUE]
  /\ pc' = [pc EXCEPT ![s] = IF WritesHeader(file_exists[s]) THEN "save_header"
                             ELSE "save_rows"]
  /\ UNCHANGED << max_active, trace, driver, cleaned, locals, fresh, appended >>
  /\ UNCHANGED scraped

\* writer.writeheader()
SaveHeader(s) ==
  /\ pc[s] = "save_header"
  /\ history_file' = [history_file EXCEPT !.lines = Append(@, HeaderLine(fieldnames))]
  /\ pc' = [pc EXCEPT ![s] = "save_rows"]
  /\ UNCHANGED << max_active, trace, driver, cleaned, locals, fresh, appended >>
  /\ UNCHANGED scraped

\* A save_price_data that compares each observation with the lowest price of
\* the file as it is when the row is written, rows of this batch included.
RecordOfUpdatedMidBatch(s, obs) ==
  RowLine(s, obs.site, obs.price,
          is_new_low(obs.price, get_historical_data(history_file).lowest_ever),
          below_threshold(obs.price))

\* The record save_price_data writes for one observation of session s.
RecordOf(s, obs) ==
  RowLine(s, obs.site, obs.price,
          is_new_low(obs.price, historical_data[s].lowest_ever),
          below_threshold(obs.price))

\* One writer.writerow(...) of the for loop; after the last one the file is
\* closed and save_price_data returns to main().
SaveRow(s) ==
  /\ pc[s] = "save_rows"
  /\ LET obs == current_prices[s][site_i[s]]
         last == site_i[s] = Len(current_prices[s])
     IN  /\ history_file' = [history_file EXCEPT !.lines = Append(@, RecordOf(s, obs))]
         /\ appended' = Append(appended, [timestamp |-> s, site |-> obs.site,
                                          price |-> obs.price])
         /\ site_i' = [site_i EXCEPT ![s] = IF last THEN 1 ELSE @ + 1]
         /\ pc' = [pc EXCEPT ![s] = IF last THEN "check_read" ELSE @]
         /\ trace' = [trace EXCEPT ![s] = IF last THEN Append(@, "evaluate") ELSE @]
  /\ UNCHANGED << max_active, driver, cleaned, current_prices, historical_data,
                  file_exists, save_error, alerts, alerts_sent, normalized, fresh >>
  /\ UNCHANGED scraped

\* open() or a write raises (an I/O error): control passes to the except
\* branch of save_price_data.
SaveFault(s) ==
  /\ pc[s] \in {"save_open", "save_header", "save_rows"}
  /\ save_error' = [save_error EXCEPT ![s] = TRUE]
  /\ pc' = [pc EXCEPT ![s] = "repair"]
  /\ UNCHANGED << history_file, max_active, trace, driver, cleaned, site_i,
                  current_prices, historical_data, file_exists, alerts, alerts_sent,
                  normalized, fresh, appended >>
  /\ UNCHANGED scraped

\* The file after the except branch's header check and repair.
RepairedFile(file) ==
  IF file.exists /\ NeedsHeader(file) THEN RecreateWithHeader(file) ELSE file

\* The except branch: if the file exists and its first line is empty or has
\* no 'timestamp', it is reopened with 'w' and a header is written. With
\* repaired = FALSE that attempt raises in turn (logged, nothing changes).
SaveRepair(s) ==
  /\ pc[s] = "repair"
  /\ \E repaired \in BOOLEAN :
       history_file' = IF repaired THEN RepairedFile(history_file) ELSE history_file
  /\ site_i' = [site_i EXCEPT ![s] = 1]
  /\ pc' = [pc EXCEPT ![s] = "check_read"]
  /\ trace' = [trace EXCEPT ![s] = Append(@, "evaluate")]
  /\ UNCHANGED << max_active, driver, cleaned, current_prices, historical_data,
                  file_exists, save_error, alerts, alerts_sent, normalized, fresh, appended >>
  /\ UNCHANGED scraped

\* ------------------------------------------------------- check_for_deals

\* historical_data = self.get_historical_data(); alerts_sent = 0
CheckRead(s) ==
  /\ pc[s] = "check_read"
  /\ historical_data' = [historical_data EXCEPT ![s] = get_historical_data(history_file)]
  /\ alerts_sent' = [alerts_sent EXCEPT ![s] = 0]
  /\ pc' = [pc EXCEPT ![s] = "check_deals"]
  /\ UNCHANGED << history_file, max_active, trace, driver, cleaned, site_i,
                  current_prices, file_exists, save_error, alerts, normalized,
                  fresh, appended >>
  /\ UNCHANGED scraped

\* The alert check_for_deals builds for one observation, with what
\* send_email_alert then did with it.
alert_info(obs, lowest_ever, outcome) ==
  [site |-> obs.site, price |-> obs.price, historical_low |-> lowest_ever,
   reason |-> alert_reasons(obs.price, lowest_ever), delivery |-> outcome]

\* A check_for_deals that a failed delivery makes leave its loop.
NextDealStopsOnFailure(i, outcome) ==
  IF outcome = "failed" THEN i + Len(WATCH_SITES) ELSE i + 1

\* The loop index after the iteration for observation i: send_email_alert
\* returns normally whatever the outcome, so the loop goes on to i + 1.
NextDeal(i, outcome) == i + 1

\* One iteration of the for loop of check_for_deals: the rules, and with any
\* reason one send_email_alert (the mail is sent, or fails inside its try
\* block, or is skipped by TEST_MODE) and alerts_sent += 1; after the last
\* observation check_for_deals returns alerts_sent to main().
CheckDeal(s) ==
  /\ pc[s] = "check_deals"
  /\ LET obs == current_prices[s][site_i[s]]
         lowest_ever == historical_data[s].lowest_ever
         n == Len(current_prices[s])
     IN  \E outcome \in (IF alert_reasons(obs.price, lowest_ever) # <<>>
                         THEN SendOutcomes ELSE {"none"}) :
           LET next == NextDeal(site_i[s], outcome)
           IN  /\ alerts' = [alerts EXCEPT ![s] =
                               IF outcome # "none"
                               THEN Append(@, alert_info(obs, lowest_ever, outcome))
                               ELSE @]
               /\ alerts_sent' = [alerts_sent EXCEPT ![s] =
                                    IF outcome # "none" THEN @ + 1 ELSE @]
               /\ site_i' = [site_i EXCEPT ![s] = IF next > n THEN 1 ELSE next]
               /\ pc' = [pc EXCEPT ![s] = IF next > n THEN "summary" ELSE @]
               /\ trace' = [trace EXCEPT ![s] =
                              IF next > n THEN Append(@, "summarize") ELSE @]
  /\ UNCHANGED << history_file, max_active, driver, cleaned, current_prices,
                  historical_data, file_exists, save_error, normalized, fresh,
                  appended >>
  /\ UNCHANGED scraped

\* generate_summary_report and the closing prints of the try block: they read
\* the ledger and print; control then reaches the finally clause.
Summarize(s) ==
  /\ pc[s] = "summary"
  /\ pc' = [pc EXCEPT ![s] = "cleanup"]
  /\ UNCHANGED << history_file, max_active, trace, driver, cleaned, locals,
                  fresh, appended >>
  /\ UNCHANGED scraped

\* An exception leaves the try block of main() from any stage (an error the
\* stage does not handle itself, or an interrupt): the frames of the stage
\* are unwound, their locals with them, the except clause logs the error and
\* the finally clause follows.
Raise(s) ==
  /\ pc[s] \in {"collect", "save_read", "save_stat", "save_open", "save_header",
                "save_rows", "repair", "check_read", "check_deals", "summary"}
  /\ pc' = [pc EXCEPT ![s] = "cleanup"]
  /\ trace' = [trace EXCEPT ![s] = Append(@, "except")]
  /\ site_i' = [site_i EXCEPT ![s] = 1]
  /\ current_prices' = [current_prices EXCEPT ![s] = <<>>]
  /\ historical_data' = [historical_data EXCEPT ![s] = NoData]
  /\ file_exists' = [file_exists EXCEPT ![s] = FALSE]
  /\ save_error' = [save_error EXCEPT ![s] = FALSE]
  /\ alerts' = [alerts EXCEPT ![s] = <<>>]
  /\ alerts_sent' = [alerts_sent EXCEPT ![s] = 0]
  /\ normalized' = [normalized EXCEPT ![s] = <<>>]
  /\ UNCHANGED << history_file, max_active, driver, cleaned, fresh, appended >>
  /\ UNCHANGED scraped

\* tracker.cleanup(): quits the browser if one was started.
cleanup(drv) == IF drv = "open" THEN "quit" ELSE drv

\* The finally clause of main(): tracker.cleanup().
Cleanup(s) ==
  /\ pc[s] = "cleanup"
  /\ driver' = [driver EXCEPT ![s] = cleanup(@)]
  /\ cleaned' = [cleaned EXCEPT ![s] = TRUE]
  /\ trace' = [trace EXCEPT ![s] = Append(@, "cleanup")]
  /\ pc' = [pc EXCEPT ![s] = "exit"]
  /\ UNCHANGED << history_file, max_active, locals, fresh, appended >>
  /\ UNCHANGED scraped

\* main() returns: the session is over and its tracker and locals are gone.
Return(s) ==
  /\ pc[s] = "exit"
  /\ pc' = [pc EXCEPT ![s] = "done"]
  /\ trace' = [trace EXCEPT ![s] = <<>>]
  /\ site_i' = [site_i EXCEPT ![s] = 1]
  /\ current_prices' = [current_prices EXCEPT ![s] = <<>>]
  /\ historical_data' = [historical_data EXCEPT ![s] = NoData]
  /\ file_exists' = [file_exists EXCEPT ![s] = FALSE]
  /\ save_error' = [save_error EXCEPT ![s] = FALSE]
  /\ alerts' = [alerts EXCEPT ![s] = <<>>]
  /\ alerts_sent' = [alerts_sent EXCEPT ![s] = 0]
  /\ normalized' = [normalized EXCEPT ![s] = <<>>]
  /\ UNCHANGED << history_file, max_active, driver, cleaned, fresh, appended >>
  /\ UNCHANGED scraped

\* One call of scrape_price_static or scrape_price_dynamic (whichever the
\* site's method names) on session s's tracker, for any configured site and
\* any page: the selectors it looks up, the price it returns, and the browser
\* a dynamic scrape starts.
ScrapeSite(s) ==
  \E i \in 1..Len(WATCH_SITES) :
    LET site_config == WATCH_SITES[i]
    IN  \E fetch \in FetchesOf(site_config, driver[s]) :
          /\ scraped' =
                [site |-> i, fetch |-> fetch,
                 locators |-> IF fetch.fault # "none" THEN <<>>
                              ELSE LocatorsTried(site_config, fetch),
                 price |-> IF site_config.method = "static"
                           THEN scrape_price_static(site_config, fetch)
                           ELSE scrape_price_dynamic(site_config, fetch)]
          /\ driver' = [driver EXCEPT ![s] =
                          IF site_config.method = "dynamic"
                          THEN setup_browser(driver[s], fetch) ELSE @]
          /\ UNCHANGED << history_file, max_active, pc, trace, cleaned, locals,
                          fresh, appended >>

Next ==
  \E s \in Sessions :
    \/ Start(s)
    \/ CheckSite(s)
    \/ SaveRead(s)
    \/ SaveStat(s)
    \/ SaveOpen(s)
    \/ SaveHeader(s)
    \/ SaveRow(s)
    \/ SaveFault(s)
    \/ SaveRepair(s)
    \/ CheckRead(s)
    \/ CheckDeal(s)
    \/ Summarize(s)
    \/ Raise(s)
    \/ Cleanup(s)
    \/ Return(s)

\* Sessions run one at a time (the deployment the design assumes).
Spec == Init /\ [][Next]_vars

\* Two sessions run at once on a ledger that is absent or empty, without I/O
\* faults; each is followed until save_price_data has returned.
InitConcurrent == InitWith(2) /\ history_file \in {AbsentFile, FileOf(<<>>)}

NextConcurrent ==
  \E s \in Sessions :
    \/ Start(s)
    \/ CheckSite(s)
    \/ SaveRead(s)
    \/ SaveStat(s)
    \/ SaveOpen(s)
    \/ SaveHeader(s)
    \/ SaveRow(s)

SpecConcurrent == InitConcurrent /\ [][NextConcurrent]_vars

\* The scrapers on their own: calls of scrape_price_static and
\* scrape_price_dynamic on one tracker, for every configured site and every
\* page (the ledger plays no part and is absent).
InitScrape == Init /\ history_file = AbsentFile

NextScrape == ScrapeSite(1)

SpecScrape == InitScrape /\ [][NextScrape]_vars

\* ----------------------------------------------------------------- claims

\* The sessions that have returned from save_price_data and still hold
\* their observations.
PastSave == {s \in Sessions : pc[s] \in {"check_read", "check_deals", "summary"}}

AppendedPrices == {appended[i].price : i \in 1..Len(appended)}

\* The last n observations written to the ledger.
LastAppended(n) == SubSeq(appended, Len(appended) - n + 1, Len(appended))

\* C1: starting from an absent ledger file, at every moment the history read
\* back from the file has as many records as observations were ever written,
\* its lowest_ever is the minimum of their prices, and a session whose
\* save_price_data returned without a write error has had every one of its
\* observations written, in order.
C1_LedgerDurability ==
  fresh =>
    LET h == get_historical_data(history_file)
    IN  /\ Len(h.records) = Len(appended)
        /\ h.total_checks = Len(appended)
        /\ h.lowest_ever = IF appended = <<>> THEN Inf ELSE MinOf(AppendedPrices)
        /\ \A s \in PastSave :
             ~save_error[s] =>
               /\ Len(appended) >= Len(current_prices[s])
               /\ LastAppended(Len(current_prices[s]))
                    = [i \in 1..Len(current_prices[s]) |->
                         [timestamp |-> s, site |-> current_prices[s][i].site,
                          price |-> current_prices[s][i].price]]

\* C1 witness: a second session has appended after a first one, and the
\* minimum over all of them was recorded by the first session.
C1_Witness ==
  /\ fresh
  /\ pc[2] = "check_read"
  /\ ~save_error[2]
  /\ Len(appended) >= 3
  /\ appended[1].timestamp = 1
  /\ appended[1].price < current_prices[2][1].price
  /\ get_historical_data(history_file).lowest_ever = appended[1].price
  /\ get_historical_data(history_file).total_checks = Len(appended)

\* The columns named by the first line of the ledger file.
HeaderColumns(file) == {file.lines[1][i].s : i \in 1..Len(file.lines[1])}

\* The ledger file is missing, is empty, or its header lacks one of the
\* columns timestamp, site, price.
Degraded(file) ==
  \/ ~file.exists
  \/ file.lines = <<>>
  \/ \E col \in {"timestamp", "site", "price"} : col \notin HeaderColumns(file)

\* C2: get_historical_data returns normally with lowest_ever = infinity and
\* an empty record list whenever the ledger file is missing, is empty, or has
\* a header lacking timestamp, site or price; a session that has just read
\* such a ledger holds exactly that result.
C2_DegradedStoreResilience ==
  /\ Degraded(history_file) =>
       /\ get_historical_data(history_file).lowest_ever = Inf
       /\ get_historical_data(history_file).records = <<>>
  /\ \A s \in Sessions :
       (pc[s] \in {"save_stat", "check_deals"} /\ Degraded(history_file)) =>
         /\ historical_data[s].lowest_ever = Inf
         /\ historical_data[s].records = <<>>

\* C2 witness: a session has read a ledger that holds data rows under a header
\* without the price column, and got the no-data result.
C2_Witness ==
  \E s \in Sessions :
    /\ pc[s] = "check_deals"
    /\ history_file.exists
    /\ Len(history_file.lines) >= 3
    /\ "price" \notin HeaderColumns(history_file)
    /\ "timestamp" \in HeaderColumns(history_file)
    /\ historical_data[s] = NoData

\* The three rules of the evaluator, in their fixed order, and their reasons.
RuleHolds(k, price, lowest) ==
  CASE k = 1 -> price <= PRICE_THRESHOLD * Scale
    [] k = 2 -> price < lowest
    [] k = 3 -> 10 * price < 9 * lowest

RuleReason ==
  << "At/below your target", "New historical low!", "Significant price drop detected" >>

\* The reasons of exactly the rules that hold, in rule order.
ExpectedReasons(price, lowest) ==
  LET held == {k \in 1..3 : RuleHolds(k, price, lowest)}
  IN  [i \in 1..Cardinality(held) |->
         RuleReason[CHOOSE k \in held : Cardinality({j \in held : j <= k}) = i]]

\* How many of its observations the session's check_for_deals has evaluated.
Evaluated(s) ==
  CASE pc[s] = "check_deals" -> site_i[s] - 1
    [] pc[s] \in {"summary", "cleanup", "exit"} -> Len(current_prices[s])
    [] OTHER -> 0

AlertsFor(s, site) == {j \in 1..Len(alerts[s]) : alerts[s][j].site = site}

C4_NoHistoricalLowWithoutData ==
  \A s \in Sessions :
    \A j \in 1..Len(alerts[s]) :
      alerts[s][j].historical_low = Inf =>
        /\ \A r \in 1..Len(alerts[s][j].reason) :
             alerts[s][j].reason[r] \notin
               {"New historical low!", "Significant price drop detected"}
        /\ alerts[s][j].price <= PRICE_THRESHOLD * Scale

\* C5 (the claim as stated): every site checked so far whose fetch succeeded
\* and whose text extract_price_from_text turned into a price has that price
\* in current_prices, whatever happened at the other sites.
C5_EverySuccessfulSiteIsReturned ==
  \A s \in Sessions :
    \A i \in 1..Len(normalized[s]) :
      normalized[s][i] # None =>
        \E k \in 1..Len(current_prices[s]) :
          /\ current_prices[s][k].site = WATCH_SITES[i].name
          /\ current_prices[s][k].price = normalized[s][i][1]

\* The orders in which main() can have entered its stages when the finally
\* clause has run.
CompletedTraces ==
  { <<"collect", "cleanup">>,
    <<"collect", "persist", "evaluate", "summarize", "cleanup">>,
    <<"collect", "except", "cleanup">>,
    <<"collect", "persist", "except", "cleanup">>,
    <<"collect", "persist", "evaluate", "except", "cleanup">>,
    <<"collect", "persist", "evaluate", "summarize", "except", "cleanup">> }

\* C6: a main() that has ended has run cleanup (after which no browser is
\* left open), on the normal path, after an exception in any stage, and on
\* the early return; on the early return (no observation collected, no
\* exception) nothing but cleanup followed collection.
C6_CleanupOnEveryExitPath ==
  \A s \in Sessions :
    /\ pc[s] \in {"exit", "done"} => (cleaned[s] /\ driver[s] # "open")
    /\ pc[s] = "exit" => trace[s] \in CompletedTraces
    /\ (pc[s] = "exit" /\ current_prices[s] = <<>>
          /\ \A i \in 1..Len(trace[s]) : trace[s][i] # "except")
         => trace[s] = <<"collect", "cleanup">>

\* C6 witness: main() took the early return with a browser open, and cleanup
\* has run and closed it.
C6_Witness ==
  \E s \in Sessions :
    /\ pc[s] = "exit"
    /\ trace[s] = <<"collect", "cleanup">>
    /\ Len(normalized[s]) = NumSites
    /\ driver[s] = "quit"
    /\ cleaned[s]

\* The data rows of the ledger file (the lines that start with a timestamp),
\* in file order.
DataRows(file) ==
  LET IsRow(line) == line[1].s = "datetime"
  IN  SelectSeq(file.lines, IsRow)

IsPrefix(a, b) == Len(a) <= Len(b) /\ SubSeq(b, 1, Len(a)) = a

\* C7 (the claim as stated): no step of any session, the header repair
\* included, rewrites or removes a data row: the rows before the step are a
\* prefix of the rows after it.
C7_RecordsAreNeverRemoved ==
  [][IsPrefix(DataRows(history_file), DataRows(history_file'))]_vars

\* C8 (the claim as stated): the store does not stay degraded: once a session
\* has appended its observations after an earlier session did, the history
\* read back has a defined lowest_ever and a non-empty record list.
C8_DegradedStoreRecovers ==
  \A s \in Sessions :
    (pc[s] = "check_read" /\ ~save_error[s]
       /\ Len(appended) > Len(current_prices[s])) =>
      /\ get_historical_data(history_file).lowest_ever # Inf
      /\ get_historical_data(history_file).records # <<>>

\* The lines of the ledger file that record the observation of session s.
LinesOf(s, obs) ==
  { i \in 1..Len(history_file.lines) :
      /\ Len(history_file.lines[i]) >= 3
      /\ history_file.lines[i][1] = Stamp(s)
      /\ history_file.lines[i][2] = Txt(obs.site)
      /\ history_file.lines[i][3] = Num(obs.price) }

\* C9: while and after check_for_deals notifies, whatever send_email_alert
\* did, the ledger reads as it did when the evaluation began and still holds
\* the session's persisted observations, and every observation evaluated so
\* far that has a reason has had its alert handed to send_email_alert; at the
\* end every observation of the session has been evaluated.
C9_NotifierFaultIsIsolated ==
  \A s \in Sessions :
    pc[s] \in {"check_deals", "summary"} =>
      /\ get_historical_data(history_file) = historical_data[s]
      /\ ~save_error[s] =>
           \A k \in 1..Len(current_prices[s]) : LinesOf(s, current_prices[s][k]) # {}
      /\ \A k \in 1..Evaluated(s) :
           alert_reasons(current_prices[s][k].price, historical_data[s].lowest_ever) # <<>>
             => AlertsFor(s, current_prices[s][k].site) # {}
      /\ Len(alerts[s]) <= Evaluated(s)

\* C9 witness: the first site's alert failed in delivery, the second site's
\* alert was sent all the same, and both observations are in the ledger.
C9_Witness ==
  \E s \in Sessions :
    /\ pc[s] = "summary"
    /\ ~save_error[s]
    /\ Len(alerts[s]) = 2
    /\ alerts[s][1].delivery = "failed"
    /\ alerts[s][2].delivery = "sent"
    /\ \A k \in 1..2 : LinesOf(s, current_prices[s][k]) # {}

\* C10 (the claim as stated): when two concurrent sessions have both returned
\* from save_price_data, the ledger has exactly one header line, at the top,
\* and holds every observation of both sessions exactly once.
C10_ConcurrentAppendsAreSerialized ==
  (\A s \in Sessions : pc[s] = "check_read") =>
    /\ history_file.lines # <<>>
    /\ history_file.lines[1] = HeaderLine(fieldnames)
    /\ \A i \in 2..Len(history_file.lines) :
         history_file.lines[i] # HeaderLine(fieldnames)
    /\ \A s \in Sessions :
         \A k \in 1..Len(current_prices[s]) :
           Cardinality(LinesOf(s, current_prices[s][k])) = 1

\* The ledger file without the rows session s has written: the file as it
\* stood before the session's writes, as far as its history goes.
BeforeSession(s) ==
  LET NotOf(line) == line[1] # Stamp(s)
  IN  [history_file EXCEPT !.lines = SelectSeq(@, NotOf)]

\* The lines of the ledger file written by session s, in file order.
RowsOf(s) ==
  LET Of(line) == line[1] = Stamp(s)
  IN  SelectSeq(history_file.lines, Of)

\* C11: during and after a session's save_price_data, the is_new_low flag of
\* every row the session has written says whether the row's price is below
\* the lowest price the ledger held before any of the session's rows: one
\* baseline for the whole batch, not lowered by the batch's own rows.
C11_NewLowAgainstPreSessionBaseline ==
  \A s \in Sessions :
    pc[s] \in {"save_rows", "repair", "check_read", "check_deals", "summary"} =>
      LET baseline == get_historical_data(BeforeSession(s)).lowest_ever
      IN  \A i \in 1..Len(RowsOf(s)) :
            RowsOf(s)[i][4] = Bool(RowsOf(s)[i][3].n < baseline)

\* C11 witness: against a defined baseline a session wrote two rows, the
\* first below the baseline and the second above the first yet flagged as a
\* new low all the same.
C11_Witness ==
  \E s \in Sessions :
    /\ pc[s] = "check_read"
    /\ ~save_error[s]
    /\ get_historical_data(BeforeSession(s)).lowest_ever # Inf
    /\ Len(RowsOf(s)) = 2
    /\ RowsOf(s)[1][3].n < RowsOf(s)[2][3].n
    /\ RowsOf(s)[1][4] = Bool(TRUE)
    /\ RowsOf(s)[2][4] = Bool(TRUE)

\* C12: whatever the site and the page, a scrape looks up the primary
\* selector first and the backup selector only after the primary one found no
\* element (and only if the two differ); when the primary selector finds an
\* element whose text yields no price, the backup selector is not looked up
\* and the scrape returns None (a miss).
C12_BackupOnlyAfterPrimaryFindsNothing ==
  scraped.site # 0 =>
    LET site_config == WATCH_SITES[scraped.site]
        fetch == scraped.fetch
        tried == scraped.locators
    IN  /\ fetch.fault = "none" => (tried # <<>> /\ tried[1] = site_config.price_selector)
        /\ Len(tried) <= 2
        /\ Len(tried) = 2 =>
             /\ tried[2] = site_config.backup_selector
             /\ fetch.primary = NoElement
             /\ site_config.backup_selector # site_config.price_selector
        /\ (fetch.fault = "none" /\ fetch.primary # NoElement
              /\ ~Truthy(extract_price_from_text(fetch.primary[1]))) =>
             /\ tried = << site_config.price_selector >>
             /\ scraped.price = None

\* C12 witness: on a script-rendered site the primary selector found an
\* element reading "Free" while the backup selector would have found a
\* price; only the primary selector was looked up and the scrape missed.
C12_Witness ==
  /\ scraped.site # 0
  /\ WATCH_SITES[scraped.site].method = "dynamic"
  /\ scraped.fetch.fault = "none"
  /\ scraped.fetch.primary = Element(<<"F", "r", "e", "e">>)
  /\ scraped.fetch.backup = Element(<<"₹", "7", ",", "5", "0", "0">>)
  /\ scraped.locators = << WATCH_SITES[scraped.site].price_selector >>
  /\ scraped.price = None

\* C13 (the claim as stated): within a session whose save_price_data wrote
\* its rows, every observation check_for_deals has evaluated has the reason
\* "New historical low!" in its alert exactly when the row written for it
\* has is_new_low = True.
C13_PersistedFlagAndAlertAgree ==
  \A s \in Sessions :
    (pc[s] \in {"check_deals", "summary"} /\ ~save_error[s]) =>
      \A k \in 1..Evaluated(s) :
        LET obs == current_prices[s][k]
            flagged == \E i \in LinesOf(s, obs) :
                         history_file.lines[i][4] = Bool(TRUE)
            alerted == \E j \in AlertsFor(s, obs.site) :
                         \E r \in 1..Len(alerts[s][j].reason) :
                           alerts[s][j].reason[r] = "New historical low!"
        IN  flagged <=> alerted

\* C14 (the claim as stated): the count check_for_deals returns to main(),
\* reported as alerts sent to the user's email, is the number of alerts of
\* the session that were delivered.
C14_AlertCountIsDeliveredCount ==
  \A s \in Sessions :
    pc[s] = "summary" =>
      alerts_sent[s] =
        Cardinality({j \in 1..Len(alerts[s]) : alerts[s][j].delivery = "sent"})

====
